---------------------------- MODULE Spec2Model ----------------------------
(***************************************************************************)
(* A model of two parts of the vulkano repository:                         *)
(*                                                                         *)
(*  - PipelineShaderStageCreateInfo::new and ::validate                    *)
(*    (vulkano/src/pipeline/mod.rs), a pure validation function over a     *)
(*    shader stage description and a device (features, properties);        *)
(*  - the event handling and the per-window frame of the                   *)
(*    multi_window_game_of_life example                                    *)
(*    (examples/src/bin/multi_window_game_of_life/main.rs), with           *)
(*    RenderPassPlaceOverFrame::render                                     *)
(*    (examples/src/bin/interactive_fractal/place_over_frame.rs);          *)
(*  - the conversions between Option<T> and StateMode<T>                   *)
(*    (vulkano/src/pipeline/mod.rs).                                       *)
(*                                                                         *)
(* u32 arithmetic is modelled at a reduced width: a u32 is a number in     *)
(* 0 .. U32_MAX with U32_MAX = 2^Width - 1.                                *)
(***************************************************************************)
EXTENDS Integers, Sequences, FiniteSets, TLC

VARIABLES
    entry_point,            \* the EntryPoint handed to PipelineShaderStageCreateInfo::new
    caller_subgroup_size,   \* what the caller assigns to the pub field required_subgroup_size
    device,                 \* the Device validate() is called with
    stage_info,             \* Option<PipelineShaderStageCreateInfo>
    result,                 \* Option<Result<(), Box<ValidationError>>> of validate()
    windows,                \* app.windows: ids of the windows that have a renderer
    pipelines,              \* app.pipelines: ids of the windows that have a RenderPipeline
    cursor_pos,             \* cursor_pos of main()
    mouse_is_pressed_w1,    \* mouse_is_pressed_w1 of main()
    mouse_is_pressed_w2,    \* mouse_is_pressed_w2 of main()
    control_flow,           \* *control_flow of the event loop closure
    last_event,             \* the event the closure was last called with
    returned,               \* Option<bool>: what process_event returned for last_event
    frame_pc,               \* where compute_then_render_per_window / compute_then_render is
    frame_queue,            \* the windows app.windows.iter_mut() has yet to yield
    frame_window,           \* the window compute_then_render was called for
    frame_size,             \* what window_renderer.window_size() returned
    frame_future,           \* Option: the future the frame holds at this point
    frame_calls,            \* the calls compute_then_render has made so far, in order
    previous_frame_end,     \* per window: Option of the future left by present
    converted               \* a value and what successive .into() calls made of it

pipeline_vars == <<entry_point, caller_subgroup_size, device, stage_info, result>>
app_vars == <<windows, pipelines, cursor_pos, mouse_is_pressed_w1,
              mouse_is_pressed_w2, control_flow, last_event, returned>>
frame_vars == <<frame_pc, frame_queue, frame_window, frame_size, frame_future,
                frame_calls, previous_frame_end>>
vars == <<entry_point, caller_subgroup_size, device, stage_info, result,
          windows, pipelines, cursor_pos, mouse_is_pressed_w1,
          mouse_is_pressed_w2, control_flow, last_event, returned,
          frame_pc, frame_queue, frame_window, frame_size, frame_future,
          frame_calls, previous_frame_end, converted>>

----------------------------------------------------------------------------
(* Option<T> *)

None == <<>>
Some(x) == <<x>>
IsSome(o) == o # <<>>
Unwrap(o) == o[1]
UnwrapOr(o, d) == IF o = <<>> THEN d ELSE o[1]

----------------------------------------------------------------------------
(* u32 *)

\* Number of bits of the modelled u32.
Width == 8
U32_MAX == 2^Width - 1
\* A value whose square overflows (Width even) or whose cube overflows.
Half == 2^(Width \div 2)

WrappingMul(a, b) == (a * b) % (U32_MAX + 1)
\* u32::checked_mul
CheckedMul(a, b) == IF a * b > U32_MAX THEN None ELSE Some(a * b)

\* u32::is_power_of_two
IsPowerOfTwo(n) == \E k \in 0..(Width - 1) : n = 2^k

\* local_size.into_iter().try_fold(1, u32::checked_mul)
TryFoldWrapping(local_size) ==
    Some(WrappingMul(WrappingMul(WrappingMul(1, local_size[1]), local_size[2]), local_size[3]))
TryFoldCheckedMul(local_size) ==
    LET a0 == CheckedMul(1, local_size[1])
        a1 == IF IsSome(a0) THEN CheckedMul(Unwrap(a0), local_size[2]) ELSE None
        a2 == IF IsSome(a1) THEN CheckedMul(Unwrap(a1), local_size[3]) ELSE None
    IN a2

\* The exact (unbounded) product of the three components.
ExactProduct(local_size) == local_size[1] * local_size[2] * local_size[3]

----------------------------------------------------------------------------
(* ShaderStage, features, extensions *)

ShaderStages ==
    {"Vertex", "TessellationControl", "TessellationEvaluation", "Geometry",
     "Fragment", "Compute", "Raygen", "AnyHit", "ClosestHit", "Miss",
     "Intersection", "Callable", "Task", "Mesh", "SubpassShading"}

RayTracingStages == {"Raygen", "AnyHit", "ClosestHit", "Miss", "Intersection", "Callable"}

\* The device features validate() reads.
Features ==
    {"tessellation_shader", "geometry_shader", "task_shader", "mesh_shader",
     "subgroup_size_control"}

Extensions ==
    {"khr_ray_tracing_pipeline", "nv_ray_tracing", "ext_mesh_shader",
     "nv_mesh_shader", "huawei_subpass_shading"}

\* ShaderStage::from(&entry_point_info.execution)
ShaderStageFrom(execution) == execution.stage

\* PipelineShaderStageCreateFlags: every flag of the bitflags type is disabled
\* in the source, so the only value is the empty set.
PipelineShaderStageCreateFlagNames == {}
FlagsEmpty == {}

----------------------------------------------------------------------------
(* ValidationError and Result *)

NoRequirement == <<>>
RequiresFeature(f) == << << [kind |-> "Feature", name |-> f] >> >>
RequiresOneExtension(es) == [i \in 1..Len(es) |-> << [kind |-> "DeviceExtension", name |-> es[i]] >>]

\* ValidationError { context, problem, requires_one_of, vuids } with ..Default::default()
ValidationError(context, requires_one_of, vuids) ==
    [ok |-> FALSE, context |-> context, requires_one_of |-> requires_one_of, vuids |-> vuids]
Ok == [ok |-> TRUE, context |-> "", requires_one_of |-> NoRequirement, vuids |-> <<>>]

\* The first Err of a sequence of results, Ok when there is none: the `?` and
\* `return Err` chain of the function body.
RECURSIVE FirstErr(_)
FirstErr(rs) ==
    IF rs = <<>> THEN Ok
    ELSE IF ~Head(rs).ok THEN Head(rs)
    ELSE FirstErr(Tail(rs))

----------------------------------------------------------------------------
(* PipelineShaderStageCreateInfo::new *)

NewWithSubgroupSize(ep) ==
    [flags |-> FlagsEmpty, entry_point |-> ep, required_subgroup_size |-> Some(1)]
New(ep) ==
    [flags |-> FlagsEmpty, entry_point |-> ep, required_subgroup_size |-> None]

----------------------------------------------------------------------------
(* PipelineShaderStageCreateInfo::validate, check by check *)

\* flags.validate_device(device): each flag that is set needs its requirement;
\* the type has no flags.
FlagsValidateDevice(flags, dev) ==
    IF flags \subseteq PipelineShaderStageCreateFlagNames
    THEN Ok
    ELSE ValidationError("", NoRequirement, <<>>)

\* flags.validate_device(device).map_err(|err| err.add_context(..).set_vuids(..))?
ValidateFlags(flags, dev) ==
    LET r == FlagsValidateDevice(flags, dev)
    IN IF r.ok THEN r
       ELSE [r EXCEPT !.context = "flags",
                      !.vuids = <<"VUID-VkPipelineShaderStageCreateInfo-flags-parameter">>]

\* The device extensions one of which a ShaderStage value needs.
StageRequiresOneOf(stage) ==
    CASE stage \in RayTracingStages -> <<"khr_ray_tracing_pipeline", "nv_ray_tracing">>
      [] stage \in {"Task", "Mesh"} -> <<"ext_mesh_shader", "nv_mesh_shader">>
      [] stage = "SubpassShading" -> <<"huawei_subpass_shading">>
      [] OTHER -> <<>>

\* stage_enum.validate_device(device): the error it builds carries no VUIDs.
StageValidateDevice(stage, dev) ==
    LET req == StageRequiresOneOf(stage)
    IN IF req = <<>> \/ \E i \in 1..Len(req) : req[i] \in dev.enabled_extensions
       THEN Ok
       ELSE ValidationError("", RequiresOneExtension(req), <<>>)

\* stage_enum.validate_device(device).map_err(|err| err.add_context(..).set_vuids(..))?
ValidateStageParameterNoVuids(stage, dev) ==
    LET r == StageValidateDevice(stage, dev)
    IN IF r.ok THEN r
       ELSE [r EXCEPT !.context = "entry_point.info().execution"]
ValidateStageParameter(stage, dev) ==
    LET r == StageValidateDevice(stage, dev)
    IN IF r.ok THEN r
       ELSE [r EXCEPT !.context = "entry_point.info().execution",
                      !.vuids = <<"VUID-VkPipelineShaderStageCreateInfo-stage-parameter">>]

\* match stage_enum { .. }: the device feature a stage needs.
CheckStageFeatureGeometryUngated(stage, features) ==
    CASE stage \in {"TessellationControl", "TessellationEvaluation"}
            /\ "tessellation_shader" \notin features ->
            ValidationError("entry_point", RequiresFeature("tessellation_shader"),
                            <<"VUID-VkPipelineShaderStageCreateInfo-stage-00705">>)
      [] stage = "Task" /\ "task_shader" \notin features ->
            ValidationError("entry_point", RequiresFeature("task_shader"),
                            <<"VUID-VkPipelineShaderStageCreateInfo-stage-02092">>)
      [] stage = "Mesh" /\ "mesh_shader" \notin features ->
            ValidationError("entry_point", RequiresFeature("mesh_shader"),
                            <<"VUID-VkPipelineShaderStageCreateInfo-stage-02091">>)
      [] OTHER -> Ok
CheckStageFeature(stage, features) ==
    CASE stage \in {"TessellationControl", "TessellationEvaluation"}
            /\ "tessellation_shader" \notin features ->
            ValidationError("entry_point", RequiresFeature("tessellation_shader"),
                            <<"VUID-VkPipelineShaderStageCreateInfo-stage-00705">>)
      [] stage = "Geometry" /\ "geometry_shader" \notin features ->
            ValidationError("entry_point", RequiresFeature("geometry_shader"),
                            <<"VUID-VkPipelineShaderStageCreateInfo-stage-00704">>)
      [] stage = "Task" /\ "task_shader" \notin features ->
            ValidationError("entry_point", RequiresFeature("task_shader"),
                            <<"VUID-VkPipelineShaderStageCreateInfo-stage-02092">>)
      [] stage = "Mesh" /\ "mesh_shader" \notin features ->
            ValidationError("entry_point", RequiresFeature("mesh_shader"),
                            <<"VUID-VkPipelineShaderStageCreateInfo-stage-02091">>)
      [] OTHER -> Ok

\* The three `if local_size[i] > max_.._work_group_size[i] { return Err(..) }`
\* of one stage arm, in source order; vuids names the three citations.
LocalSizeWithinLimitsInclusive(local_size, max_size, vuids) ==
    IF local_size[1] >= max_size[1]
    THEN ValidationError("", NoRequirement, <<vuids[1]>>)
    ELSE IF local_size[2] >= max_size[2]
    THEN ValidationError("", NoRequirement, <<vuids[2]>>)
    ELSE IF local_size[3] >= max_size[3]
    THEN ValidationError("", NoRequirement, <<vuids[3]>>)
    ELSE Ok
LocalSizeWithinLimits(local_size, max_size, vuids) ==
    IF local_size[1] > max_size[1]
    THEN ValidationError("", NoRequirement, <<vuids[1]>>)
    ELSE IF local_size[2] > max_size[2]
    THEN ValidationError("", NoRequirement, <<vuids[2]>>)
    ELSE IF local_size[3] > max_size[3]
    THEN ValidationError("", NoRequirement, <<vuids[3]>>)
    ELSE Ok

\* local_size.into_iter().try_fold(1, u32::checked_mul).filter(|&x| x <= max)
WorkgroupSizeProductWrapping(local_size, max_invocations) ==
    LET p == TryFoldWrapping(local_size)
    IN IF IsSome(p) /\ Unwrap(p) <= max_invocations THEN p ELSE None
WorkgroupSizeProduct(local_size, max_invocations) ==
    LET p == TryFoldCheckedMul(local_size)
    IN IF IsSome(p) /\ Unwrap(p) <= max_invocations THEN p ELSE None

\* One stage arm of `match stage_enum` inside `let workgroup_size = ..`:
\* the per-dimension limits, then the product; .ok_or_else(|| Err(vuid))?
StageWorkgroupSize(local_size, max_size, max_invocations, size_vuids, product_vuid) ==
    LET dims == LocalSizeWithinLimits(local_size, max_size, size_vuids)
        p == WorkgroupSizeProduct(local_size, max_invocations)
    IN IF ~dims.ok THEN [res |-> dims, value |-> None]
       ELSE IF ~IsSome(p)
       THEN [res |-> ValidationError("", NoRequirement, <<product_vuid>>), value |-> None]
       ELSE [res |-> Ok, value |-> p]

\* let workgroup_size = if let ShaderExecution::Compute(execution) = .. { .. } else { None };
WorkgroupSize(execution, stage, properties) ==
    IF ~IsSome(execution.local_size) THEN [res |-> Ok, value |-> None]
    ELSE LET local_size == Unwrap(execution.local_size)
         IN CASE stage = "Compute" ->
                  StageWorkgroupSize(local_size,
                      properties.max_compute_work_group_size,
                      properties.max_compute_work_group_invocations,
                      <<"VUID-RuntimeSpirv-x-06429", "VUID-RuntimeSpirv-x-06430",
                        "VUID-RuntimeSpirv-x-06431">>,
                      "VUID-RuntimeSpirv-x-06432")
              [] stage = "Task" ->
                  StageWorkgroupSize(local_size,
                      UnwrapOr(properties.max_task_work_group_size, <<0, 0, 0>>),
                      UnwrapOr(properties.max_task_work_group_invocations, 0),
                      <<"VUID-RuntimeSpirv-TaskEXT-07291", "VUID-RuntimeSpirv-TaskEXT-07292",
                        "VUID-RuntimeSpirv-TaskEXT-07293">>,
                      "VUID-RuntimeSpirv-TaskEXT-07294")
              [] stage = "Mesh" ->
                  StageWorkgroupSize(local_size,
                      UnwrapOr(properties.max_mesh_work_group_size, <<0, 0, 0>>),
                      UnwrapOr(properties.max_mesh_work_group_invocations, 0),
                      <<"VUID-RuntimeSpirv-MeshEXT-07295", "VUID-RuntimeSpirv-MeshEXT-07296",
                        "VUID-RuntimeSpirv-MeshEXT-07297">>,
                      "VUID-RuntimeSpirv-MeshEXT-07298")
              \* `_ => unreachable!()`: a panic, not a returned error.
              [] OTHER -> [res |-> ValidationError("panic: unreachable!()", NoRequirement, <<>>),
                           value |-> None]

\* if !device.enabled_features().subgroup_size_control { return Err(..) }
CheckSubgroupSizeControlSkipped(features) == Ok
CheckSubgroupSizeControl(features) ==
    IF "subgroup_size_control" \notin features
    THEN ValidationError("required_subgroup_size", RequiresFeature("subgroup_size_control"),
                         <<"VUID-VkPipelineShaderStageCreateInfo-pNext-02755">>)
    ELSE Ok

\* if !properties.required_subgroup_size_stages.unwrap_or_default().contains_enum(stage_enum)
CheckSubgroupStageDefaultAll(stage, properties) ==
    IF stage \notin UnwrapOr(properties.required_subgroup_size_stages, ShaderStages)
    THEN ValidationError("", NoRequirement,
                         <<"VUID-VkPipelineShaderStageCreateInfo-pNext-02755">>)
    ELSE Ok
CheckSubgroupStage(stage, properties) ==
    IF stage \notin UnwrapOr(properties.required_subgroup_size_stages, {})
    THEN ValidationError("", NoRequirement,
                         <<"VUID-VkPipelineShaderStageCreateInfo-pNext-02755">>)
    ELSE Ok

\* The power-of-two, min_subgroup_size and max_subgroup_size checks, in source order.
CheckSubgroupSizeValueExclusiveMin(size, properties) ==
    IF ~IsPowerOfTwo(size)
    THEN ValidationError("required_subgroup_size", NoRequirement,
            <<"VUID-VkPipelineShaderStageRequiredSubgroupSizeCreateInfo-requiredSubgroupSize-02760">>)
    ELSE IF size <= UnwrapOr(properties.min_subgroup_size, 1)
    THEN ValidationError("required_subgroup_size", NoRequirement,
            <<"VUID-VkPipelineShaderStageRequiredSubgroupSizeCreateInfo-requiredSubgroupSize-02761">>)
    ELSE IF size > UnwrapOr(properties.max_subgroup_size, 128)
    THEN ValidationError("required_subgroup_size", NoRequirement,
            <<"VUID-VkPipelineShaderStageRequiredSubgroupSizeCreateInfo-requiredSubgroupSize-02762">>)
    ELSE Ok
CheckSubgroupSizeValue(size, properties) ==
    IF ~IsPowerOfTwo(size)
    THEN ValidationError("required_subgroup_size", NoRequirement,
            <<"VUID-VkPipelineShaderStageRequiredSubgroupSizeCreateInfo-requiredSubgroupSize-02760">>)
    ELSE IF size < UnwrapOr(properties.min_subgroup_size, 1)
    THEN ValidationError("required_subgroup_size", NoRequirement,
            <<"VUID-VkPipelineShaderStageRequiredSubgroupSizeCreateInfo-requiredSubgroupSize-02761">>)
    ELSE IF size > UnwrapOr(properties.max_subgroup_size, 128)
    THEN ValidationError("required_subgroup_size", NoRequirement,
            <<"VUID-VkPipelineShaderStageRequiredSubgroupSizeCreateInfo-requiredSubgroupSize-02762">>)
    ELSE Ok

\* if let Some(workgroup_size) = workgroup_size { if stage_enum == ShaderStage::Compute {
\*     if workgroup_size > required_subgroup_size.checked_mul(
\*         max_compute_workgroup_subgroups.unwrap_or_default()).unwrap_or(u32::MAX) { Err } } }
CheckSubgroupWorkgroupOverflowZero(size, stage, workgroup_size, properties) ==
    IF IsSome(workgroup_size) /\ stage = "Compute"
       /\ Unwrap(workgroup_size) >
            UnwrapOr(CheckedMul(size, UnwrapOr(properties.max_compute_workgroup_subgroups, 0)), 0)
    THEN ValidationError("", NoRequirement,
                         <<"VUID-VkPipelineShaderStageCreateInfo-pNext-02756">>)
    ELSE Ok
CheckSubgroupWorkgroup(size, stage, workgroup_size, properties) ==
    IF IsSome(workgroup_size) /\ stage = "Compute"
       /\ Unwrap(workgroup_size) >
            UnwrapOr(CheckedMul(size, UnwrapOr(properties.max_compute_workgroup_subgroups, 0)),
                     U32_MAX)
    THEN ValidationError("", NoRequirement,
                         <<"VUID-VkPipelineShaderStageCreateInfo-pNext-02756">>)
    ELSE Ok

\* if let Some(required_subgroup_size) = required_subgroup_size { .. }
CheckRequiredSubgroupSize(required_subgroup_size, stage, workgroup_size, dev) ==
    IF ~IsSome(required_subgroup_size) THEN Ok
    ELSE LET size == Unwrap(required_subgroup_size)
         IN FirstErr(<<CheckSubgroupSizeControl(dev.enabled_features),
                       CheckSubgroupStage(stage, dev.properties),
                       CheckSubgroupSizeValue(size, dev.properties),
                       CheckSubgroupWorkgroup(size, stage, workgroup_size, dev.properties)>>)

\* PipelineShaderStageCreateInfo::validate(&self, device)
Validate(info, dev) ==
    LET execution == info.entry_point.execution
        stage_enum == ShaderStageFrom(execution)
        wg == WorkgroupSize(execution, stage_enum, dev.properties)
    IN FirstErr(<<ValidateFlags(info.flags, dev),
                  ValidateStageParameter(stage_enum, dev),
                  CheckStageFeature(stage_enum, dev.enabled_features),
                  wg.res,
                  CheckRequiredSubgroupSize(info.required_subgroup_size, stage_enum,
                                            wg.value, dev)>>)

----------------------------------------------------------------------------
(* The inputs of new() and validate(): entry points, devices *)

EntryPoint(stage, local_size) ==
    [execution |-> [stage |-> stage, local_size |-> local_size]]

Triples(S) == {<<a, b, c>> : a \in S, b \in S, c \in S}

BaseProperties ==
    [max_compute_work_group_size |-> <<Half, Half, Half>>,
     max_compute_work_group_invocations |-> U32_MAX,
     max_task_work_group_size |-> Some(<<Half, Half, Half>>),
     max_task_work_group_invocations |-> Some(U32_MAX),
     max_mesh_work_group_size |-> Some(<<Half, Half, Half>>),
     max_mesh_work_group_invocations |-> Some(U32_MAX),
     required_subgroup_size_stages |-> Some(ShaderStages),
     min_subgroup_size |-> None,
     max_subgroup_size |-> None,
     max_compute_workgroup_subgroups |-> Some(U32_MAX)]

Device(features, extensions, properties) ==
    [enabled_features |-> features, enabled_extensions |-> extensions,
     properties |-> properties]

Input(ep, size, dev) == [entry_point |-> ep, required_subgroup_size |-> size, device |-> dev]

\* Every stage against every combination of the device features.
StageInputs ==
    {Input(ep, size,
           Device(f, x, [BaseProperties EXCEPT !.required_subgroup_size_stages = st])) :
        ep \in {EntryPoint(s, None) : s \in ShaderStages \ {"Compute"}}
               \cup {EntryPoint(s, Some(<<1, 1, 1>>)) : s \in {"Compute", "Task", "Mesh"}},
        size \in {None, Some(4)},
        f \in SUBSET Features,
        x \in {{}, {"nv_ray_tracing"}, {"ext_mesh_shader"}, Extensions},
        st \in {None, Some(ShaderStages)}}

\* Compute entry points: local sizes against the compute limits of the device.
ComputeInputs ==
    {Input(EntryPoint("Compute", Some(ls)), sz[1],
           Device(Features, Extensions,
                  [BaseProperties EXCEPT !.max_compute_work_group_size = ms,
                                         !.max_compute_work_group_invocations = mi,
                                         !.max_compute_workgroup_subgroups = sz[2]])) :
        ls \in Triples({0, 1, 2, Half}),
        ms \in Triples({2, Half}),
        mi \in {4, U32_MAX},
        sz \in {<<None, None>>}
               \cup ({Some(4)} \X {None, Some(1), Some(2), Some(2^(Width - 2)), Some(U32_MAX)})}
    \cup
    {Input(EntryPoint("Compute", Some(ls)), None,
           Device(Features, Extensions,
                  [BaseProperties EXCEPT !.max_compute_work_group_size =
                                             <<U32_MAX, U32_MAX, U32_MAX>>])) :
        ls \in Triples({1, U32_MAX})}

\* The required subgroup size against the subgroup properties of the device.
SubgroupInputs ==
    {Input(ep, size,
           Device(f, Extensions,
                  [BaseProperties EXCEPT !.required_subgroup_size_stages = st,
                                         !.min_subgroup_size = mn,
                                         !.max_subgroup_size = mx,
                                         !.max_compute_workgroup_subgroups = ms])) :
        ep \in {EntryPoint("Vertex", None), EntryPoint("Compute", Some(<<2, 2, 1>>))},
        size \in {None} \cup {Some(n) : n \in {0, 1, 2, 3, 4, 8, 2^(Width - 1), U32_MAX}},
        f \in {Features, Features \ {"subgroup_size_control"}},
        st \in {None, Some({}), Some({"Compute"}), Some(ShaderStages)},
        mn \in {None, Some(2), Some(4)},
        mx \in {None, Some(4), Some(8)},
        ms \in {None, Some(1), Some(U32_MAX)}}

\* Task and mesh entry points that carry a local size.
MeshInputs ==
    {Input(EntryPoint(s, Some(ls)), size,
           Device(Features, Extensions,
                  [BaseProperties EXCEPT !.max_task_work_group_size = ms,
                                         !.max_mesh_work_group_size = ms,
                                         !.max_task_work_group_invocations = mi,
                                         !.max_mesh_work_group_invocations = mi])) :
        s \in {"Task", "Mesh"},
        ls \in Triples({1, 2, Half}),
        size \in {None, Some(4)},
        ms \in {None, Some(<<2, 2, 2>>), Some(<<Half, Half, Half>>)},
        mi \in {None, Some(4), Some(U32_MAX)}}

Inputs == StageInputs \cup ComputeInputs \cup SubgroupInputs \cup MeshInputs

----------------------------------------------------------------------------
(* multi_window_game_of_life: the windows and the events *)

\* The number of windows App::open creates; window 1 is the primary window.
NumWindows == 2
WindowIds == 1..NumWindows
\* app.windows.primary_window_id().unwrap()
PrimaryWindowId == 1

\* The largest cursor coordinate of the model.
MaxCursor == 1
Positions == (0..MaxCursor) \X (0..MaxCursor)

NoWindow == 0
WindowEvent(kind, id, position, state, button) ==
    [kind |-> kind, window_id |-> id, position |-> position, state |-> state,
     button |-> button]
\* The events winit delivers: window events of the windows `open`, the Destroyed
\* event of any window, and an event that is no WindowEvent.
Events(open) ==
    {WindowEvent(k, id, <<0, 0>>, "", "") :
        k \in {"CloseRequested", "Resized", "ScaleFactorChanged"}, id \in open}
    \cup {WindowEvent("CursorMoved", id, p, "", "") : id \in open, p \in Positions}
    \cup {WindowEvent("MouseInput", id, <<0, 0>>, st, b) :
            id \in open, st \in {"Pressed", "Released"}, b \in {"Left", "Right", "Middle"}}
    \cup {WindowEvent("Destroyed", id, <<0, 0>>, "", "") : id \in WindowIds}
    \cup {WindowEvent("MainEventsCleared", NoWindow, <<0, 0>>, "", "")}

IsWindowEvent(event) == event.kind # "MainEventsCleared"

\* process_event(&event, &mut app, &mut cursor_pos, &mut mouse_pressed_w1,
\* &mut mouse_pressed_w2) -> bool; st holds what the &mut arguments point to.
ProcessEventCloseAny(event, st) ==
    IF event.kind = "CloseRequested"
    THEN [ret |-> TRUE, st |-> st]
    ELSE [ret |-> FALSE, st |-> st]
ProcessEvent(event, st) ==
    IF ~IsWindowEvent(event) THEN [ret |-> FALSE, st |-> st]
    ELSE CASE event.kind = "CloseRequested" ->
                IF event.window_id = PrimaryWindowId
                THEN [ret |-> TRUE, st |-> st]
                ELSE [ret |-> FALSE,
                      st |-> [st EXCEPT !.windows = @ \ {event.window_id},
                                        !.pipelines = @ \ {event.window_id}]]
           [] event.kind \in {"Resized", "ScaleFactorChanged"} ->
                \* get_renderer_mut(*window_id).unwrap().resize(): the swapchain
                \* is recreated on the next acquire; no state of this model changes.
                [ret |-> FALSE, st |-> st]
           [] event.kind = "CursorMoved" ->
                [ret |-> FALSE, st |-> [st EXCEPT !.cursor_pos = event.position]]
           [] event.kind = "MouseInput" ->
                LET mouse_pressed == event.button = "Left" /\ event.state = "Pressed"
                IN IF event.window_id = PrimaryWindowId
                   THEN [ret |-> FALSE, st |-> [st EXCEPT !.mouse_pressed_w1 = mouse_pressed]]
                   ELSE [ret |-> FALSE, st |-> [st EXCEPT !.mouse_pressed_w2 = mouse_pressed]]
           [] OTHER -> [ret |-> FALSE, st |-> st]

----------------------------------------------------------------------------
(* The state machines *)

PipelineIdle ==
    /\ entry_point = EntryPoint("Vertex", None)
    /\ caller_subgroup_size = None
    /\ device = Device(Features, Extensions, BaseProperties)
    /\ stage_info = None
    /\ result = None

AppIdle ==
    /\ windows = WindowIds
    /\ pipelines = WindowIds
    /\ cursor_pos = <<0, 0>>
    /\ mouse_is_pressed_w1 = FALSE
    /\ mouse_is_pressed_w2 = FALSE
    /\ control_flow = "Poll"
    /\ last_event = None
    /\ returned = None

\* No frame has been started: previous_frame_end is None for every window.
FrameIdle ==
    /\ frame_pc = "idle"
    /\ frame_queue = <<>>
    /\ frame_window = NoWindow
    /\ frame_size = <<0, 0>>
    /\ frame_future = None
    /\ frame_calls = <<>>
    /\ previous_frame_end = [w \in WindowIds |-> None]

\* A caller holds an entry point and a device, and has not built the stage yet.
Init ==
    /\ \E i \in Inputs :
        /\ entry_point = i.entry_point
        /\ caller_subgroup_size = i.required_subgroup_size
        /\ device = i.device
    /\ stage_info = None
    /\ result = None
    /\ AppIdle
    /\ FrameIdle
    /\ converted = <<>>

\* let stage = PipelineShaderStageCreateInfo::new(entry_point);
NewStageInfo ==
    /\ stage_info = None
    /\ stage_info' = Some(New(entry_point))
    /\ UNCHANGED <<entry_point, caller_subgroup_size, device, result>>
    /\ UNCHANGED app_vars
    /\ UNCHANGED <<frame_vars, converted>>

\* stage.required_subgroup_size = Some(n);  (the field is pub)
SetRequiredSubgroupSize ==
    /\ IsSome(stage_info)
    /\ result = None
    /\ IsSome(caller_subgroup_size)
    /\ Unwrap(stage_info).required_subgroup_size # caller_subgroup_size
    /\ stage_info' = Some([Unwrap(stage_info) EXCEPT
                              !.required_subgroup_size = caller_subgroup_size])
    /\ UNCHANGED <<entry_point, caller_subgroup_size, device, result>>
    /\ UNCHANGED app_vars
    /\ UNCHANGED <<frame_vars, converted>>

\* stage.validate(&device)
ValidateStage ==
    /\ IsSome(stage_info)
    /\ result = None
    /\ result' = Some(Validate(Unwrap(stage_info), device))
    /\ UNCHANGED <<entry_point, caller_subgroup_size, device, stage_info>>
    /\ UNCHANGED app_vars
    /\ UNCHANGED <<frame_vars, converted>>

Next == NewStageInfo \/ SetRequiredSubgroupSize \/ ValidateStage

Spec == Init /\ [][Next]_vars

\* main() after app.open(&event_loop): two windows, no input yet.
InitApp == PipelineIdle /\ AppIdle /\ FrameIdle /\ converted = <<>>

\* One call of the closure given to event_loop.run, up to its use of
\* process_event's result.
HandleEvent ==
    /\ control_flow # "Exit"
    /\ \E event \in Events(windows) :
        LET r == ProcessEvent(event,
                     [windows |-> windows, pipelines |-> pipelines,
                      cursor_pos |-> cursor_pos,
                      mouse_pressed_w1 |-> mouse_is_pressed_w1,
                      mouse_pressed_w2 |-> mouse_is_pressed_w2])
        IN /\ last_event' = Some(event)
           /\ returned' = Some(r.ret)
           /\ windows' = r.st.windows
           /\ pipelines' = r.st.pipelines
           /\ cursor_pos' = r.st.cursor_pos
           /\ mouse_is_pressed_w1' = r.st.mouse_pressed_w1
           /\ mouse_is_pressed_w2' = r.st.mouse_pressed_w2
           /\ control_flow' = IF r.ret THEN "Exit" ELSE control_flow
    /\ UNCHANGED pipeline_vars
    /\ UNCHANGED <<frame_vars, converted>>

NextApp == HandleEvent

SpecApp == InitApp /\ [][NextApp]_vars

----------------------------------------------------------------------------
(* multi_window_game_of_life: the frame of one window *)

\* The largest width and height of a window in the model.
MaxExtent == 1
\* What window_renderer.window_size() can return.
Sizes == (0..MaxExtent) \X (0..MaxExtent)

\* compute_then_render: if w == 0.0 || h == 0.0 { return; }
MinimizedBothZero(size) == size[1] = 0 /\ size[2] = 0
Minimized(size) == size[1] = 0 \/ size[2] = 0

\* compute_then_render_per_window: the colours of the primary window and of
\* the other windows.
LifeColor(window_id) ==
    IF window_id = PrimaryWindowId THEN <<1, 0, 0, 1>> ELSE <<0, 0, 0, 1>>
DeadColor(window_id) ==
    IF window_id = PrimaryWindowId THEN <<0, 0, 0, 0>> ELSE <<1, 1, 1, 1>>

\* app.windows.iter_mut(): the windows that have a renderer, in the order of
\* their ids.
RECURSIVE IterMut(_)
IterMut(open) ==
    IF open = {} THEN <<>>
    ELSE LET first == CHOOSE w \in open : \A v \in open : w <= v
         IN <<first>> \o IterMut(open \ {first})

\* A GpuFuture is the sequence of the operations it stands for, oldest first:
\* an operation starts only after the operations before it in the sequence.
\* window_renderer.acquire() -> Ok(future)
AcquireFuture(window_id) == <<[op |-> "acquire", window |-> window_id]>>
\* pipeline.compute.compute(before_future, life_color, dead_color)
Compute(before_future, life_color, dead_color) ==
    Append(before_future,
           [op |-> "compute", life_color |-> life_color, dead_color |-> dead_color])
\* pipeline.compute.color_image()
ColorImage(window_id) == [image |-> "color_image", window |-> window_id]
\* window_renderer.swapchain_image_view()
SwapchainImageView(window_id, size) ==
    [image |-> "swapchain_image", window |-> window_id, extent |-> size]

\* RenderPassPlaceOverFrame::render: the commands an AutoCommandBufferBuilder
\* has recorded, in order.
PrimaryBuilder == <<>>
BeginRenderPass(builder, framebuffer, contents) ==
    Append(builder, [command |-> "begin_render_pass", framebuffer |-> framebuffer,
                     contents |-> contents])
ExecuteCommands(builder, cb) ==
    Append(builder, [command |-> "execute_commands", command_buffer |-> cb])
EndRenderPass(builder) == Append(builder, [command |-> "end_render_pass"])
Build(builder) ==
    [level |-> "primary", usage |-> "OneTimeSubmit", commands |-> builder]
\* self.pixels_draw_pipeline.draw(img_dims, view): a secondary command buffer.
PixelsDrawPipelineDraw(img_dims, view) ==
    [level |-> "secondary", drawn_by |-> "pixels_draw_pipeline",
     viewport |-> img_dims, image |-> view]
\* before_future.then_execute(queue, command_buffer)
ThenExecute(before_future, queue, command_buffer) ==
    Append(before_future,
           [op |-> "execute", queue |-> queue, command_buffer |-> command_buffer])

\* RenderPassPlaceOverFrame::render(&self, before_future, view, target)
RenderExecuteAfterEnd(before_future, view, target) ==
    LET img_dims == target.extent
        framebuffer == [render_pass |-> "render_pass", attachments |-> <<target>>]
        begun == BeginRenderPass(PrimaryBuilder, framebuffer, "SecondaryCommandBuffers")
        cb == PixelsDrawPipelineDraw(img_dims, view)
        ended == EndRenderPass(begun)
        executed == ExecuteCommands(ended, cb)
        command_buffer == Build(executed)
    IN ThenExecute(before_future, "gfx_queue", command_buffer)
Render(before_future, view, target) ==
    LET img_dims == target.extent
        framebuffer == [render_pass |-> "render_pass", attachments |-> <<target>>]
        begun == BeginRenderPass(PrimaryBuilder, framebuffer, "SecondaryCommandBuffers")
        cb == PixelsDrawPipelineDraw(img_dims, view)
        executed == ExecuteCommands(begun, cb)
        ended == EndRenderPass(executed)
        command_buffer == Build(ended)
        after_future == ThenExecute(before_future, "gfx_queue", command_buffer)
    IN after_future

\* window_renderer.present(after_future, wait): what the renderer keeps as
\* the end of the frame.
Present(after_future, wait) ==
    [future |-> Append(after_future, [op |-> "present"]), waited |-> wait]

\* One call compute_then_render makes: the future it hands over, the future it
\* gets back, and the wait argument of present.
Call(op, takes, gives, wait) ==
    [op |-> op, takes |-> takes, gives |-> gives, wait |-> wait]

\* main() after app.open(&event_loop), before the first frame.
InitFrame == PipelineIdle /\ AppIdle /\ FrameIdle /\ converted = <<>>

\* compute_then_render_per_window(&mut app): the loop over the windows starts.
ComputeThenRenderPerWindow ==
    /\ frame_pc = "idle"
    /\ frame_pc' = "loop"
    /\ frame_queue' = IterMut(windows)
    /\ UNCHANGED <<frame_window, frame_size, frame_future, frame_calls,
                   previous_frame_end>>
    /\ UNCHANGED <<pipeline_vars, app_vars, converted>>

\* The loop calls compute_then_render for the next window, which reads the
\* size of the window and returns at once when the window is minimized.
ComputeThenRender ==
    /\ frame_pc = "loop"
    /\ frame_queue # <<>>
    /\ frame_window' = Head(frame_queue)
    /\ frame_queue' = Tail(frame_queue)
    /\ frame_calls' = <<>>
    /\ frame_future' = None
    /\ \E size \in Sizes :
        /\ frame_size' = size
        /\ frame_pc' = IF Minimized(size) THEN "returned" ELSE "acquire"
    /\ UNCHANGED previous_frame_end
    /\ UNCHANGED <<pipeline_vars, app_vars, converted>>

\* let before_pipeline_future = match window_renderer.acquire() { .. };
StartFrame ==
    /\ frame_pc = "acquire"
    /\ \E acquired \in BOOLEAN :
        IF acquired
        THEN /\ frame_future' = Some(AcquireFuture(frame_window))
             /\ frame_calls' = Append(frame_calls,
                    Call("acquire", None, Some(AcquireFuture(frame_window)), None))
             /\ frame_pc' = "compute"
        ELSE /\ frame_future' = None
             /\ frame_calls' = Append(frame_calls, Call("acquire", None, None, None))
             /\ frame_pc' = "returned"
    /\ UNCHANGED <<frame_queue, frame_window, frame_size, previous_frame_end>>
    /\ UNCHANGED <<pipeline_vars, app_vars, converted>>

\* let after_compute = pipeline.compute.compute(before_pipeline_future, ..);
ComputeFrame ==
    /\ frame_pc = "compute"
    /\ LET before_pipeline_future == Unwrap(frame_future)
           after_compute == Compute(before_pipeline_future, LifeColor(frame_window),
                                    DeadColor(frame_window))
       IN /\ frame_future' = Some(after_compute)
          /\ frame_calls' = Append(frame_calls,
                 Call("compute", Some(before_pipeline_future), Some(after_compute), None))
    /\ frame_pc' = "render"
    /\ UNCHANGED <<frame_queue, frame_window, frame_size, previous_frame_end>>
    /\ UNCHANGED <<pipeline_vars, app_vars, converted>>

\* let after_render = pipeline.place_over_frame.render(after_compute, ..);
\* The render pass of this example is taken to be RenderPassPlaceOverFrame of
\* interactive_fractal/place_over_frame.rs, whose render has the same signature.
RenderFrame ==
    /\ frame_pc = "render"
    /\ LET after_compute == Unwrap(frame_future)
           color_image == ColorImage(frame_window)
           target_image == SwapchainImageView(frame_window, frame_size)
           after_render == Render(after_compute, color_image, target_image)
       IN /\ frame_future' = Some(after_render)
          /\ frame_calls' = Append(frame_calls,
                 Call("render", Some(after_compute), Some(after_render), None))
    /\ frame_pc' = "present"
    /\ UNCHANGED <<frame_queue, frame_window, frame_size, previous_frame_end>>
    /\ UNCHANGED <<pipeline_vars, app_vars, converted>>

\* window_renderer.present(after_render, true);
FinishFrameWithoutWait ==
    /\ frame_pc = "present"
    /\ LET after_render == Unwrap(frame_future)
           end == Present(after_render, FALSE)
       IN /\ previous_frame_end' = [previous_frame_end EXCEPT ![frame_window] = Some(end)]
          /\ frame_calls' = Append(frame_calls,
                 Call("present", Some(after_render), Some(end.future), Some(FALSE)))
    /\ frame_future' = None
    /\ frame_pc' = "returned"
    /\ UNCHANGED <<frame_queue, frame_window, frame_size>>
    /\ UNCHANGED <<pipeline_vars, app_vars, converted>>
FinishFrame ==
    /\ frame_pc = "present"
    /\ LET after_render == Unwrap(frame_future)
           end == Present(after_render, TRUE)
       IN /\ previous_frame_end' = [previous_frame_end EXCEPT ![frame_window] = Some(end)]
          /\ frame_calls' = Append(frame_calls,
                 Call("present", Some(after_render), Some(end.future), Some(TRUE)))
    /\ frame_future' = None
    /\ frame_pc' = "returned"
    /\ UNCHANGED <<frame_queue, frame_window, frame_size>>
    /\ UNCHANGED <<pipeline_vars, app_vars, converted>>

\* compute_then_render has returned: the loop goes on, or
\* compute_then_render_per_window returns after the last window.
ReturnToLoop ==
    /\ frame_pc = "returned"
    /\ frame_pc' = IF frame_queue = <<>> THEN "idle" ELSE "loop"
    /\ UNCHANGED <<frame_queue, frame_window, frame_size, frame_future, frame_calls,
                   previous_frame_end>>
    /\ UNCHANGED <<pipeline_vars, app_vars, converted>>

NextFrame ==
    \/ ComputeThenRenderPerWindow
    \/ ComputeThenRender
    \/ StartFrame
    \/ ComputeFrame
    \/ RenderFrame
    \/ FinishFrame
    \/ ReturnToLoop

SpecFrame == InitFrame /\ [][NextFrame]_vars

----------------------------------------------------------------------------
(* StateMode<T> and its conversions from and to Option<T> *)

\* The largest value of T in the model: T is 0 .. MaxValue.
MaxValue == 11
Values == 0..MaxValue
\* The largest number of conversions applied to one value.
MaxConversions == 4

\* pub enum StateMode<F> { Fixed(F), Dynamic }
Fixed(x) == [tag |-> "Fixed", value |-> x]
Dynamic == [tag |-> "Dynamic"]

\* impl<T> From<Option<T>> for StateMode<T>
StateModeFromKeepsNothing(val) == Dynamic
StateModeFrom(val) ==
    IF IsSome(val) THEN Fixed(Unwrap(val)) ELSE Dynamic

\* impl<T> From<StateMode<T>> for Option<T>
OptionFrom(val) ==
    IF val.tag = "Fixed" THEN Some(val.value) ELSE None

\* A value together with the type it has.
OfOption(val) == [type |-> "Option", value |-> val]
OfStateMode(val) == [type |-> "StateMode", value |-> val]
Last(s) == s[Len(s)]

\* A caller holds an Option<T> or a StateMode<T>.
InitStateMode ==
    /\ PipelineIdle /\ AppIdle /\ FrameIdle
    /\ \/ converted = <<OfOption(None)>>
       \/ \E x \in Values : converted = <<OfOption(Some(x))>>
       \/ converted = <<OfStateMode(Dynamic)>>
       \/ \E x \in Values : converted = <<OfStateMode(Fixed(x))>>

\* let mode: StateMode<T> = option.into();
IntoStateMode ==
    /\ converted # <<>>
    /\ Len(converted) <= MaxConversions
    /\ Last(converted).type = "Option"
    /\ converted' = Append(converted, OfStateMode(StateModeFrom(Last(converted).value)))
    /\ UNCHANGED <<pipeline_vars, app_vars, frame_vars>>

\* let option: Option<T> = mode.into();
IntoOption ==
    /\ converted # <<>>
    /\ Len(converted) <= MaxConversions
    /\ Last(converted).type = "StateMode"
    /\ converted' = Append(converted, OfOption(OptionFrom(Last(converted).value)))
    /\ UNCHANGED <<pipeline_vars, app_vars, frame_vars>>

NextStateMode == IntoStateMode \/ IntoOption

SpecStateMode == InitStateMode /\ [][NextStateMode]_vars

----------------------------------------------------------------------------
(* Vocabulary of the properties of validate().  These read the inputs of    *)
(* the call directly; none of them uses a check of Validate.                *)

Validated == IsSome(result)
Res == Unwrap(result)
Info == Unwrap(stage_info)
InfoStage == Info.entry_point.execution.stage
InfoLocalSize == Info.entry_point.execution.local_size
Rss == Info.required_subgroup_size
Props == device.properties
Enabled(f) == f \in device.enabled_features

Cites(v) == ~Res.ok /\ Res.vuids = <<v>>
CitesOneOf(vs) == ~Res.ok /\ \E v \in vs : Res.vuids = <<v>>
NamesFeature(f) ==
    Res.requires_one_of = << << [kind |-> "Feature", name |-> f] >> >>

VuidStage(n) == "VUID-VkPipelineShaderStageCreateInfo-stage-" \o n
VuidPNext(n) == "VUID-VkPipelineShaderStageCreateInfo-pNext-" \o n
VuidSubgroup(n) ==
    "VUID-VkPipelineShaderStageRequiredSubgroupSizeCreateInfo-requiredSubgroupSize-" \o n
ComputeSizeVuids ==
    <<"VUID-RuntimeSpirv-x-06429", "VUID-RuntimeSpirv-x-06430", "VUID-RuntimeSpirv-x-06431">>
FeatureGateVuids == {VuidStage("00705"), VuidStage("00704"), VuidStage("02092"), VuidStage("02091")}
SubgroupVuids ==
    {VuidPNext("02755"), VuidSubgroup("02760"), VuidSubgroup("02761"),
     VuidSubgroup("02762"), VuidPNext("02756")}

\* The device can take the stage at all: the extension that introduces it is enabled.
StageSupported ==
    /\ InfoStage \in RayTracingStages =>
        {"khr_ray_tracing_pipeline", "nv_ray_tracing"} \cap device.enabled_extensions # {}
    /\ InfoStage \in {"Task", "Mesh"} =>
        {"ext_mesh_shader", "nv_mesh_shader"} \cap device.enabled_extensions # {}
    /\ InfoStage = "SubpassShading" => "huawei_subpass_shading" \in device.enabled_extensions

\* The feature the stage needs is enabled.
StageFeatureEnabled ==
    /\ InfoStage \in {"TessellationControl", "TessellationEvaluation"} =>
        Enabled("tessellation_shader")
    /\ InfoStage = "Geometry" => Enabled("geometry_shader")
    /\ InfoStage = "Task" => Enabled("task_shader")
    /\ InfoStage = "Mesh" => Enabled("mesh_shader")

MaxWorkGroupSize ==
    CASE InfoStage = "Compute" -> Props.max_compute_work_group_size
      [] InfoStage = "Task" -> UnwrapOr(Props.max_task_work_group_size, <<0, 0, 0>>)
      [] OTHER -> UnwrapOr(Props.max_mesh_work_group_size, <<0, 0, 0>>)
MaxWorkGroupInvocations ==
    CASE InfoStage = "Compute" -> Props.max_compute_work_group_invocations
      [] InfoStage = "Task" -> UnwrapOr(Props.max_task_work_group_invocations, 0)
      [] OTHER -> UnwrapOr(Props.max_mesh_work_group_invocations, 0)

\* The local size, when there is one, is within the limits of the stage: each
\* dimension, and the product, whose running value x, x*y, x*y*z must fit the
\* u32 at each step (x = y = 2^16, z = 0 is rejected although the product is 0).
LocalSizeAccepted ==
    IsSome(InfoLocalSize) =>
        /\ \A i \in 1..3 : Unwrap(InfoLocalSize)[i] <= MaxWorkGroupSize[i]
        /\ Unwrap(InfoLocalSize)[1] * Unwrap(InfoLocalSize)[2] <= U32_MAX
        /\ ExactProduct(Unwrap(InfoLocalSize)) <= U32_MAX
        /\ ExactProduct(Unwrap(InfoLocalSize)) <= MaxWorkGroupInvocations

\* No check that precedes the required_subgroup_size block rejects.
ReachesSubgroupChecks == StageSupported /\ StageFeatureEnabled /\ LocalSizeAccepted

MinSubgroupSize == UnwrapOr(Props.min_subgroup_size, 1)
MaxSubgroupSize == UnwrapOr(Props.max_subgroup_size, 128)
SubgroupStages == UnwrapOr(Props.required_subgroup_size_stages, {})
\* n is one of 1, 2, 4, ...
IsPow2(n) == n >= 1 /\ \A d \in 2..n : (n % d = 0 /\ d % 2 = 1) => d = 1

----------------------------------------------------------------------------
(* C1 *)

\* C1: every Err validate returns carries at least one VUID, whatever the
\* stage, local size, required subgroup size, features and properties.
C1_ErrCarriesVuids ==
    (Validated /\ ~Res.ok) => Len(Res.vuids) >= 1

\* validate() rejected a stage the device does not support: the error was built
\* by validate_device (no VUIDs) and completed by the map_err closure.
C1_Witness ==
    /\ Validated
    /\ ~StageSupported
    /\ Cites("VUID-VkPipelineShaderStageCreateInfo-stage-parameter")

----------------------------------------------------------------------------
(* C2 *)

\* C2: for a Compute entry point, validate returns Ok only if the exact
\* product of the three local sizes is at most max_compute_work_group_invocations.
C2_ComputeOkImpliesProductWithinLimit ==
    (Validated /\ InfoStage = "Compute" /\ Res.ok) =>
        ExactProduct(Unwrap(InfoLocalSize)) <= Props.max_compute_work_group_invocations

\* A Compute stage whose exact product does not fit the u32 while every
\* dimension is within its limit was validated, and rejected for the product.
C2_Witness ==
    /\ Validated
    /\ InfoStage = "Compute"
    /\ \A i \in 1..3 : Unwrap(InfoLocalSize)[i] <= Props.max_compute_work_group_size[i]
    /\ ExactProduct(Unwrap(InfoLocalSize)) > U32_MAX
    /\ Cites("VUID-RuntimeSpirv-x-06432")

----------------------------------------------------------------------------
(* C3 *)

ViolatedDimensions ==
    {i \in 1..3 : Unwrap(InfoLocalSize)[i] > Props.max_compute_work_group_size[i]}
Lowest(S) == CHOOSE i \in S : \A j \in S : i <= j

\* C3: for a Compute entry point, a local size above its limit in some
\* dimension is rejected citing the VUID of the lowest such dimension; when no
\* dimension is above its limit (equal included) none of the three is cited.
C3_LowestViolatedDimensionCited ==
    (Validated /\ InfoStage = "Compute") =>
        IF ViolatedDimensions # {}
        THEN Cites(ComputeSizeVuids[Lowest(ViolatedDimensions)])
        ELSE ~CitesOneOf({ComputeSizeVuids[i] : i \in 1..3})

\* x equals its limit, y and z exceed theirs: y is cited.
C3_Witness ==
    /\ Validated
    /\ InfoStage = "Compute"
    /\ Unwrap(InfoLocalSize)[1] = Props.max_compute_work_group_size[1]
    /\ ViolatedDimensions = {2, 3}
    /\ Cites("VUID-RuntimeSpirv-x-06430")

----------------------------------------------------------------------------
(* C4 *)

FeatureGated(stages, feature, vuid) ==
    (InfoStage \in stages /\ ~Enabled(feature)) =>
        /\ ~Res.ok
        /\ StageSupported => (Cites(vuid) /\ NamesFeature(feature))

----------------------------------------------------------------------------
(* C5 *)

\* C5 as stated: with Some(required_subgroup_size) and subgroup_size_control
\* not enabled, validate returns the -pNext-02755 error naming the feature;
\* with None, no subgroup-size check rejects.
C5_AsStated ==
    Validated =>
        /\ (IsSome(Rss) /\ ~Enabled("subgroup_size_control")) =>
              (Cites(VuidPNext("02755")) /\ NamesFeature("subgroup_size_control"))
        /\ ~IsSome(Rss) => ~CitesOneOf(SubgroupVuids)

\* C5, amended: with Some(required_subgroup_size) and subgroup_size_control not
\* enabled, validate returns Err; the error is the -pNext-02755 error naming the
\* feature when no earlier check (stage parameter, stage feature, workgroup
\* size limits) rejects, and it is that earlier check's error otherwise.  With
\* None, no subgroup-size check rejects.
C5_SubgroupSizeControlRequired ==
    Validated =>
        /\ (IsSome(Rss) /\ ~Enabled("subgroup_size_control")) =>
              /\ ~Res.ok
              /\ IF ReachesSubgroupChecks
                 THEN Cites(VuidPNext("02755")) /\ NamesFeature("subgroup_size_control")
                 ELSE ~CitesOneOf(SubgroupVuids)
        /\ ~IsSome(Rss) => ~CitesOneOf(SubgroupVuids)

\* A stage that passes every earlier check asked for a subgroup size on a
\* device without subgroup_size_control, and was rejected for it.
C5_Witness ==
    /\ Validated
    /\ IsSome(Rss)
    /\ ~Enabled("subgroup_size_control")
    /\ ReachesSubgroupChecks
    /\ Cites(VuidPNext("02755"))
    /\ NamesFeature("subgroup_size_control")

----------------------------------------------------------------------------
(* C6 *)

\* C6 as stated: with Some(required_subgroup_size), Ok only if the stage is in
\* required_subgroup_size_stages; a device that does not report the property
\* rejects every such stage with -pNext-02755.
C6_AsStated ==
    (Validated /\ IsSome(Rss)) =>
        /\ Res.ok => InfoStage \in SubgroupStages
        /\ ~IsSome(Props.required_subgroup_size_stages) => Cites(VuidPNext("02755"))

\* C6, amended: with Some(required_subgroup_size), Ok only if the stage is in
\* required_subgroup_size_stages (the empty set when the device does not report
\* it); a device that does not report the property rejects every such stage,
\* with -pNext-02755 when no earlier check (stage parameter, stage feature,
\* workgroup size limits) rejects, and with that earlier check's error otherwise.
C6_SubgroupStageRequired ==
    (Validated /\ IsSome(Rss)) =>
        /\ Res.ok => InfoStage \in SubgroupStages
        /\ ~IsSome(Props.required_subgroup_size_stages) =>
              /\ ~Res.ok
              /\ IF ReachesSubgroupChecks
                 THEN Cites(VuidPNext("02755"))
                 ELSE ~CitesOneOf(SubgroupVuids)

\* With the feature enabled and the property not reported, the stage check
\* itself rejected (its error names no feature).
C6_Witness ==
    /\ Validated
    /\ IsSome(Rss)
    /\ Enabled("subgroup_size_control")
    /\ ~IsSome(Props.required_subgroup_size_stages)
    /\ ReachesSubgroupChecks
    /\ Cites(VuidPNext("02755"))
    /\ Res.requires_one_of = <<>>

----------------------------------------------------------------------------
(* C7 *)

SubgroupSizeInRange(n) == IsPow2(n) /\ MinSubgroupSize <= n /\ n <= MaxSubgroupSize

\* C7 as stated: Ok only if the size is a power of 2 within
\* [min_subgroup_size, max_subgroup_size] (1 and 128 when not reported); 0 is
\* rejected with -02760, a size below the minimum with -02761, a size above the
\* maximum with -02762.
C7_AsStated ==
    (Validated /\ IsSome(Rss)) =>
        /\ Res.ok => SubgroupSizeInRange(Unwrap(Rss))
        /\ Unwrap(Rss) = 0 => Cites(VuidSubgroup("02760"))
        /\ Unwrap(Rss) < MinSubgroupSize => Cites(VuidSubgroup("02761"))
        /\ Unwrap(Rss) > MaxSubgroupSize => Cites(VuidSubgroup("02762"))

\* The checks before the value checks of required_subgroup_size all pass.
ReachesSubgroupValueChecks ==
    /\ ReachesSubgroupChecks
    /\ Enabled("subgroup_size_control")
    /\ InfoStage \in SubgroupStages

\* C7, amended: Ok only if the size is a power of 2 within
\* [min_subgroup_size, max_subgroup_size], both inclusive (1 and 128 when not
\* reported), so 0 is rejected.  The citation is that of the first check that
\* fails: when every earlier check passes, -02760 for a size that is no power
\* of 2, else -02761 for a size below the minimum, else -02762 for a size above
\* the maximum; and each of the three is cited only for its own violation.
C7_SubgroupSizeValue ==
    (Validated /\ IsSome(Rss)) =>
        LET n == Unwrap(Rss)
        IN /\ Res.ok => SubgroupSizeInRange(n)
           /\ n = 0 => ~Res.ok
           /\ ReachesSubgroupValueChecks =>
                 /\ ~IsPow2(n) => Cites(VuidSubgroup("02760"))
                 /\ (IsPow2(n) /\ n < MinSubgroupSize) => Cites(VuidSubgroup("02761"))
                 /\ (IsPow2(n) /\ n >= MinSubgroupSize /\ n > MaxSubgroupSize) =>
                        Cites(VuidSubgroup("02762"))
           /\ Cites(VuidSubgroup("02760")) => ~IsPow2(n)
           /\ Cites(VuidSubgroup("02761")) => n < MinSubgroupSize
           /\ Cites(VuidSubgroup("02762")) => n > MaxSubgroupSize

\* A size equal to the reported minimum and to the reported maximum passed.
C7_Witness ==
    /\ Validated
    /\ IsSome(Rss)
    /\ IsSome(Props.min_subgroup_size)
    /\ Unwrap(Rss) = MinSubgroupSize
    /\ Unwrap(Rss) = MaxSubgroupSize
    /\ Res.ok

----------------------------------------------------------------------------
(* C8 *)

MaxComputeWorkgroupSubgroups == UnwrapOr(Props.max_compute_workgroup_subgroups, 0)

\* C8: a Compute stage with Some(s) that passes every earlier check is Ok
\* exactly when max_compute_workgroup_subgroups * s, as an exact integer, is at
\* least the product of the local sizes, and is rejected with -pNext-02756
\* otherwise, also when that product does not fit the u32; a stage other than
\* Compute is never rejected with -pNext-02756.
C8_SubgroupsCoverWorkgroup ==
    Validated =>
        /\ (InfoStage = "Compute" /\ IsSome(Rss) /\ ReachesSubgroupValueChecks
                /\ SubgroupSizeInRange(Unwrap(Rss))) =>
              IF MaxComputeWorkgroupSubgroups * Unwrap(Rss)
                    >= ExactProduct(Unwrap(InfoLocalSize))
              THEN Res.ok
              ELSE Cites(VuidPNext("02756"))
        /\ InfoStage # "Compute" => ~Cites(VuidPNext("02756"))

\* max_compute_workgroup_subgroups * s does not fit the u32, and the stage passed.
C8_Witness ==
    /\ Validated
    /\ InfoStage = "Compute"
    /\ IsSome(Rss)
    /\ MaxComputeWorkgroupSubgroups * Unwrap(Rss) > U32_MAX
    /\ ExactProduct(Unwrap(InfoLocalSize)) > 0
    /\ Res.ok

----------------------------------------------------------------------------
(* C9 *)

\* C9: the value new(entry_point) returns has empty flags, no required
\* subgroup size, and the entry point it was given.
C9_NewDefaults ==
    [][(stage_info = None /\ stage_info' # None) =>
          /\ Unwrap(stage_info').flags = {}
          /\ Unwrap(stage_info').required_subgroup_size = <<>>
          /\ Unwrap(stage_info').entry_point = entry_point]_vars

\* new() has returned a stage for a Compute entry point; nothing was set on it.
C9_Witness ==
    /\ IsSome(stage_info)
    /\ ~Validated
    /\ InfoStage = "Compute"
    /\ Info.entry_point = entry_point
    /\ Rss = <<>>
    /\ IsSome(caller_subgroup_size)

----------------------------------------------------------------------------
(* C10 *)

\* C10: process_event returns true exactly for CloseRequested on the primary
\* window, and false for every other event.
C10_TrueOnlyForPrimaryClose ==
    IsSome(returned) =>
        (Unwrap(returned) <=>
            (Unwrap(last_event).kind = "CloseRequested"
                /\ Unwrap(last_event).window_id = PrimaryWindowId))

\* CloseRequested on a window that is not the primary one returned false and
\* removed that window.
C10_Witness ==
    /\ IsSome(returned)
    /\ Unwrap(last_event).kind = "CloseRequested"
    /\ Unwrap(last_event).window_id # PrimaryWindowId
    /\ Unwrap(last_event).window_id \notin windows
    /\ Unwrap(returned) = FALSE
    /\ control_flow # "Exit"


----------------------------------------------------------------------------
(* Vocabulary of the properties of a frame.  These read the calls the       *)
(* frame has made and the size it read; none of them uses Minimized or      *)
(* Render.                                                                  *)

FrameSteps == <<"acquire", "compute", "render", "present">>
FrameOps == [i \in 1..Len(frame_calls) |-> frame_calls[i].op]
WindowShown == frame_size[1] # 0 /\ frame_size[2] # 0
AcquireSucceeded ==
    /\ Len(frame_calls) >= 1
    /\ frame_calls[1].op = "acquire"
    /\ IsSome(frame_calls[1].gives)
FrameReturned == frame_pc = "returned"
IsPrefix(s, t) == Len(s) <= Len(t) /\ SubSeq(t, 1, Len(s)) = s
CommandNames(commands) == [j \in 1..Len(commands) |-> commands[j].command]

\* C11: in compute_then_render, the calls made so far are always the first
\* steps of acquire, compute, render, present; when the call has returned for
\* a window that is not minimized and whose acquire succeeded, all four steps
\* were made, each of compute, render and present took the future the step
\* before it gave, and present was called with wait = true; and whenever the
\* frame of a window is about to be acquired, the future its previous frame
\* left behind, if any, has been waited on.
C11_FrameStepsChained ==
    /\ IsPrefix(FrameOps, FrameSteps)
    /\ (FrameReturned /\ WindowShown /\ AcquireSucceeded) =>
        /\ FrameOps = FrameSteps
        /\ \A i \in 2..Len(FrameSteps) :
              frame_calls[i].takes = frame_calls[i - 1].gives
        /\ frame_calls[Len(FrameSteps)].wait = Some(TRUE)
    /\ frame_pc = "acquire" =>
        \/ previous_frame_end[frame_window] = None
        \/ Unwrap(previous_frame_end[frame_window]).waited

\* A second frame of the second window is about to be acquired after its
\* first frame was presented.
C11_Witness ==
    /\ frame_pc = "acquire"
    /\ frame_window = 2
    /\ IsSome(previous_frame_end[2])

\* C12: every call of RenderPassPlaceOverFrame::render returns the future it
\* was given followed by exactly one more operation: the execution, on
\* gfx_queue, of a built primary command buffer whose commands are one
\* begin_render_pass, one execute_commands of the secondary buffer drawn by
\* pixels_draw_pipeline, and one end_render_pass, in this order.
C12_RenderSubmitsAfterBefore ==
    \A i \in 1..Len(frame_calls) :
        frame_calls[i].op = "render" =>
            LET before_future == Unwrap(frame_calls[i].takes)
                returned_future == Unwrap(frame_calls[i].gives)
                submitted == returned_future[Len(returned_future)]
                recorded == submitted.command_buffer.commands
            IN /\ Len(returned_future) = Len(before_future) + 1
               /\ IsPrefix(before_future, returned_future)
               /\ submitted.op = "execute"
               /\ submitted.queue = "gfx_queue"
               /\ submitted.command_buffer.level = "primary"
               /\ CommandNames(recorded)
                      = <<"begin_render_pass", "execute_commands", "end_render_pass">>
               /\ recorded[2].command_buffer.level = "secondary"
               /\ recorded[2].command_buffer.drawn_by = "pixels_draw_pipeline"

\* render has just been called with the future of compute.
C12_Witness ==
    /\ frame_pc = "present"
    /\ Len(frame_calls) = 3
    /\ frame_calls[3].op = "render"
    /\ Len(Unwrap(frame_calls[3].takes)) = 2

\* C13: compute_then_render makes no call for a window whose width is 0 or
\* whose height is 0: it is never at acquire, compute, render or present, and
\* the calls it has made stay empty.
C13_MinimizedWindowSkipped ==
    (frame_size[1] = 0 \/ frame_size[2] = 0) =>
        /\ frame_calls = <<>>
        /\ frame_pc \in {"idle", "loop", "returned"}

\* compute_then_render has returned for a window of width 0 and height 1.
C13_Witness ==
    /\ frame_pc = "returned"
    /\ frame_window # NoWindow
    /\ frame_size[1] = 0
    /\ frame_size[2] # 0

----------------------------------------------------------------------------
(* C14 *)

\* C14: every conversion of an Option maps Some(x) to Fixed(x) and None to
\* Dynamic, every conversion of a StateMode maps Fixed(x) to Some(x) and
\* Dynamic to None, and converting twice gives back the value started from,
\* whether it was an Option or a StateMode.
C14_ConversionsMutuallyInverse ==
    /\ \A i \in 1..(Len(converted) - 1) :
          LET from == converted[i]
              to == converted[i + 1]
          IN /\ from.type = "Option" =>
                  /\ to.type = "StateMode"
                  /\ from.value = <<>> => to.value = [tag |-> "Dynamic"]
                  /\ from.value # <<>> =>
                        to.value = [tag |-> "Fixed", value |-> from.value[1]]
             /\ from.type = "StateMode" =>
                  /\ to.type = "Option"
                  /\ from.value.tag = "Dynamic" => to.value = <<>>
                  /\ from.value.tag = "Fixed" => to.value = <<from.value.value>>
    /\ \A i \in 1..(Len(converted) - 2) : converted[i + 2] = converted[i]

\* Some(1) was converted three times: Option -> StateMode -> Option and
\* StateMode -> Option -> StateMode have both been completed.
C14_Witness ==
    /\ Len(converted) = 4
    /\ converted[1].type = "Option"
    /\ converted[1].value = <<1>>
    /\ converted[2].type = "StateMode"
============================================================================
